---- MODULE Spec2Model ----
(***************************************************************************)
(* Model of server.c: the accept loop of main, ListenRequest,              *)
(* ParseHTTPRequest (strtok/strtok_r over the request buffer),             *)
(* BuildResponse (resource resolution), ResponseHeader, ResponseBody and   *)
(* SendResponse.                                                           *)
(*                                                                         *)
(* C strings are sequences of one-character strings.  A char* is an index  *)
(* into a memory image (a sequence of characters holding NUL terminators); *)
(* the null pointer is index 0.  LF, CR and NUL stand for the bytes        *)
(* '\n', '\r' and '\0'.                                                    *)
(***************************************************************************)
EXTENDS Integers, Sequences, FiniteSets, TLC

(* ------------------------------ bounds --------------------------------- *)
\* connections accepted in one run of the server
MaxConn == 2
\* failed or short write() calls and failed reads of the file per connection
MaxFaults == 1

(* ------------------------- program constants --------------------------- *)
SUCCESS_RESULT == 0
MAX_LINE == 255
BUFFER_SIZE == 4096
UNKNOWN_FILE == -1
NO_FILE == 0
HTML_FILE == 1
GIF_FILE == 2
JPEG_FILE == 3
MP3_FILE == 4
PDF_FILE == 5
NULL == 0

LF == "LF"
CR == "CR"
NUL == "NUL"
SP == " "

(* --------------------------- string literals --------------------------- *)
S_GET == <<"G", "E", "T">>
S_POST == <<"P", "O", "S", "T">>
S_PUT == <<"P", "U", "T">>
S_Version == <<"H", "T", "T", "P", "/", "1", ".", "1">>
S_Root == <<"/">>
S_html == <<"h", "t", "m", "l">>
S_gif == <<"g", "i", "f">>
S_jpeg == <<"j", "p", "e", "g">>
S_mp3 == <<"m", "p", "3">>
S_pdf == <<"p", "d", "f">>
IndexDoc == <<"s", "r", "c", "/", "i", "n", "d", "e", "x", ".", "h", "t", "m", "l">>
NotFoundDoc == <<"s", "r", "c", "/", "4", "0", "4", ".", "h", "t", "m", "l">>
S_OK == <<"O", "K">>
S_Moved == <<"M", "o", "v", "e", "d", " ", "P", "e", "r", "m", "a", "n", "e", "n", "t", "l", "y">>
S_BadRequest == <<"B", "a", "d", " ", "R", "e", "q", "u", "e", "s", "t">>
S_NotFound == <<"N", "o", "t", " ", "F", "o", "u", "n", "d">>
S_ContentType == <<"C", "o", "n", "t", "e", "n", "t", "-", "T", "y", "p", "e">>
S_AcceptRanges == <<"A", "c", "c", "e", "p", "t", "-", "R", "a", "n", "g", "e", "s">>
S_bytes == <<"b", "y", "t", "e", "s">>
S_ContentDisposition == <<"C", "o", "n", "t", "e", "n", "t", "-", "D", "i", "s", "p", "o", "s", "i", "t", "i", "o", "n">>
S_InlineFilename == <<"i", "n", "l", "i", "n", "e", ";", " ", "f", "i", "l", "e", "n", "a", "m", "e", "=", "\"">>
S_TextPlain == <<"t", "e", "x", "t", "/", "p", "l", "a", "i", "n">>
S_TextHtml == <<"t", "e", "x", "t", "/", "h", "t", "m", "l">>
S_ImageGif == <<"i", "m", "a", "g", "e", "/", "g", "i", "f">>
S_ImageJpeg == <<"i", "m", "a", "g", "e", "/", "j", "p", "e", "g">>
S_AudioMpeg == <<"a", "u", "d", "i", "o", "/", "m", "p", "e", "g">>
S_ApplicationPdf == <<"a", "p", "p", "l", "i", "c", "a", "t", "i", "o", "n", "/", "p", "d", "f">>
S_PrintfNull == <<"(", "n", "u", "l", "l", ")">>
P_html == <<"/", "a", ".", "h", "t", "m", "l">>
P_gif == <<"/", "a", ".", "g", "i", "f">>
P_jpeg == <<"/", "a", ".", "j", "p", "e", "g">>
P_mp3 == <<"/", "a", ".", "m", "p", "3">>
P_pdf == <<"/", "a", ".", "p", "d", "f">>
P_xyz == <<"/", "a", ".", "x", "y", "z">>
P_twodots == <<"/", "a", ".", "b", ".", "h", "t", "m", "l">>
P_htmlxyz == <<"/", "a", ".", "h", "t", "m", "l", ".", "x", "y", "z">>
P_nodot == <<"/", "a">>
P_enddot == <<"/", "a", ".">>
P_startdot == <<"/", ".", "a">>
S_Host == <<"H", "o", "s", "t">>
S_x == <<"x">>
S_Accept == <<"A", "c", "c", "e", "p", "t">>
S_ab == <<"a", ":", "b">>
S_Body == <<"k", "=", "v">>

(* ------------------------- C string primitives ------------------------- *)
\* strlen(p): distance from p to the first NUL at or after p
StrLen(mem, p) ==
  (CHOOSE q \in p..Len(mem) :
      mem[q] = NUL /\ \A r \in p..(q - 1) : mem[r] # NUL) - p

\* the string a char* denotes
CStr(mem, p) == SubSeq(mem, p, p + StrLen(mem, p) - 1)

\* strspn(p, delims): length of the leading run of delimiter characters
Strspn(mem, p, D) ==
  (CHOOSE q \in p..Len(mem) :
      ~(mem[q] \in D) /\ \A r \in p..(q - 1) : mem[r] \in D) - p

\* strcspn(p, delims): length of the leading run of non-delimiter characters
Strcspn(mem, p, D) ==
  (CHOOSE q \in p..Len(mem) :
      mem[q] \in (D \cup {NUL}) /\ \A r \in p..(q - 1) : ~(mem[r] \in (D \cup {NUL}))) - p

\* strtok_r(s, delims, &save): the token found (NULL when there is none), the
\* new save pointer and the memory with the token's delimiter overwritten by
\* NUL.  strtok(s, delims) is the same function on one static save pointer.
StrtokR(mem, s, save, D) ==
  LET s0 == IF s = NULL THEN save ELSE s
      s1 == s0 + Strspn(mem, s0, D)
      e  == s1 + Strcspn(mem, s1, D)
  IN  IF mem[s0] = NUL THEN [tok |-> NULL, save |-> s0, mem |-> mem]
      ELSE IF mem[s1] = NUL THEN [tok |-> NULL, save |-> s1, mem |-> mem]
      ELSE IF mem[e] = NUL THEN [tok |-> s1, save |-> e, mem |-> mem]
      ELSE [tok |-> s1, save |-> e + 1, mem |-> [mem EXCEPT ![e] = NUL]]

\* strchr(s, c) != NULL
HasChar(s, c) == \E k \in 1..Len(s) : s[k] = c

(* --------------------------- ParseHTTPRequest -------------------------- *)
\* one pass of the for loop of ParseHTTPRequest: one strtok_r on "\n" and two
\* strtok, whose static save pointer is olds; entry is the pair stored in
\* request_body
ParseHeaderLine(mem, rest_buffer, olds) ==
  LET t == StrtokR(mem, rest_buffer, rest_buffer, {LF})
      f == StrtokR(t.mem, t.tok, olds, {":"})
      d == StrtokR(f.mem, NULL, f.save, {LF})
  IN  [mem |-> d.mem, token |-> t.tok, rest_buffer |-> t.save, olds |-> d.save,
       entry |-> [field |-> f.tok, data |-> d.tok]]

\* number of header lines reported by the loop
ParseReturnValue(request_body_line) == request_body_line - 1

\* the first line's trailing '\r' is overwritten by NUL
StripCR(mem, token) ==
  LET last == token + StrLen(mem, token) - 1
  IN  IF mem[last] = CR THEN [mem EXCEPT ![last] = NUL] ELSE mem

\* ParseHTTPRequest up to its for loop, on the buffer at index 1.  crash:
\* strlen of the NULL first-line token (a buffer holding only '\n').
ParseRequestLine(buffer) ==
  LET t0 == StrtokR(buffer, 1, NULL, {LF})
  IN  IF t0.tok = NULL
      THEN [crash |-> TRUE]
      ELSE LET m1 == StripCR(t0.mem, t0.tok)
               a  == StrtokR(m1, t0.tok, NULL, {SP})
               l  == StrtokR(a.mem, NULL, a.save, {SP})
               v  == StrtokR(l.mem, NULL, l.save, {SP})
           IN  [crash |-> FALSE,
                mem |-> v.mem,
                line |-> [action |-> a.tok, location |-> l.tok,
                          http_version |-> v.tok],
                token |-> t0.tok, rest_buffer |-> t0.save, olds |-> v.save]

(* ------------------- requests arriving on a connection ----------------- *)
CRLF == <<CR, LF>>
Header_Host == [field |-> S_Host, value |-> S_x]
Header_Accept == [field |-> S_Accept, value |-> S_ab]

RECURSIVE JoinSP(_)
\* the request-line tokens separated by single spaces
JoinSP(tokens) ==
  IF Len(tokens) = 0 THEN <<>>
  ELSE IF Len(tokens) = 1 THEN tokens[1]
  ELSE tokens[1] \o <<SP>> \o JoinSP(Tail(tokens))

RECURSIVE RenderHeaders(_, _)
\* "<Field>: <Value>" lines, each ended by the line ending
RenderHeaders(hs, eol) ==
  IF Len(hs) = 0 THEN <<>>
  ELSE IF Len(hs) = 1 THEN hs[1].field \o <<":", SP>> \o hs[1].value \o eol
  ELSE LET h == Len(hs) \div 2
       IN  RenderHeaders(SubSeq(hs, 1, h), eol)
             \o RenderHeaders(SubSeq(hs, h + 1, Len(hs)), eol)

\* the bytes of a request on the wire
Render(r) ==
  JoinSP(r.tokens) \o r.eol \o RenderHeaders(r.headers, r.eol)
    \o (IF r.blank THEN r.eol ELSE <<>>) \o r.body

Paths ==
  {S_Root, P_html, P_gif, P_jpeg, P_mp3, P_pdf, P_xyz, P_twodots, P_htmlxyz,
   P_nodot, P_enddot, P_startdot}

\* request lines: GET of every path, other methods, and lines with fewer than
\* three tokens
RequestLines ==
  {<<S_GET, p, S_Version>> : p \in Paths}
    \cup {<<S_POST, P_html, S_Version>>, <<S_PUT, P_html, S_Version>>}
    \cup {<<S_GET, S_Root>>, <<S_GET, P_html>>, <<S_GET>>, <<>>}

\* line ending, header lines, blank line and body that follow a request line
Framings ==
  {[eol |-> CRLF, headers |-> <<Header_Host>>, blank |-> TRUE, body |-> <<>>],
   [eol |-> <<LF>>, headers |-> <<Header_Host>>, blank |-> TRUE, body |-> <<>>],
   [eol |-> CRLF, headers |-> <<>>, blank |-> TRUE, body |-> <<>>],
   [eol |-> <<LF>>, headers |-> <<>>, blank |-> FALSE, body |-> <<>>],
   [eol |-> CRLF, headers |-> <<Header_Host, Header_Accept>>, blank |-> TRUE,
    body |-> S_Body]}

MainFraming == [eol |-> CRLF, headers |-> <<Header_Host>>, blank |-> TRUE, body |-> <<>>]

\* as many header lines as the header array has entries
ManyHeaders == [k \in 1..MAX_LINE |-> Header_Host]

ManyHeadersFraming ==
  [eol |-> <<LF>>, headers |-> ManyHeaders, blank |-> TRUE, body |-> <<>>]

MkRequest(tokens, f) ==
  [tokens |-> tokens, eol |-> f.eol, headers |-> f.headers, blank |-> f.blank,
   body |-> f.body]

\* every request line with the usual framing; a few request lines with every
\* framing
Requests ==
  {MkRequest(t, MainFraming) : t \in RequestLines}
    \cup {MkRequest(t, f) : t \in {<<S_GET, P_html, S_Version>>,
                                   <<S_GET, S_Root, S_Version>>,
                                   <<S_POST, P_html, S_Version>>, <<>>},
                            f \in Framings}
    \cup {MkRequest(<<S_GET, S_Root, S_Version>>, ManyHeadersFraming)}

NoRequest == [tokens |-> <<>>, eol |-> <<>>, headers |-> <<>>, blank |-> FALSE,
              body |-> <<>>]

(* ------------------------------ filesystem ----------------------------- *)
\* A file's content is a sequence of lines: n bytes other than '\n', then a
\* '\n' when nl.  Only the last line may lack its '\n'.
Line(n, nl) == [n |-> n, nl |-> nl]
EmptyFile == <<>>
OneByteFile == <<Line(1, FALSE)>>
LinesFile == <<Line(2, TRUE), Line(1, TRUE)>>
NoFinalNewlineFile == <<Line(2, TRUE), Line(2, FALSE)>>
OneChunkFile == <<Line(BUFFER_SIZE, FALSE)>>
TwoChunkFile == <<Line(BUFFER_SIZE - 1, TRUE), Line(BUFFER_SIZE - 1, TRUE)>>
Contents ==
  {EmptyFile, OneByteFile, LinesFile, NoFinalNewlineFile, OneChunkFile, TwoChunkFile}

Absent == [exists |-> FALSE, readable |-> FALSE, content |-> EmptyFile]
Present(c) == [exists |-> TRUE, readable |-> TRUE, content |-> c]
Unreadable(c) == [exists |-> TRUE, readable |-> FALSE, content |-> c]

Candidates == {Tail(p) : p \in Paths \ {S_Root}}
FilePaths == Candidates \cup {IndexDoc, NotFoundDoc}

\* a filesystem: the requested files all in state cand, the two documents in
\* states idx and nf
MkFs(cand, idx, nf) ==
  [p \in FilePaths |-> IF p = IndexDoc THEN idx
                       ELSE IF p = NotFoundDoc THEN nf ELSE cand]

FsConfigs ==
  {MkFs(Present(c), Present(LinesFile), Present(LinesFile)) : c \in Contents}
    \cup {MkFs(Absent, Present(LinesFile), Present(LinesFile)),
          MkFs(Unreadable(LinesFile), Present(LinesFile), Present(LinesFile)),
          MkFs(Absent, Present(LinesFile), Absent),
          MkFs(Present(LinesFile), Absent, Present(LinesFile)),
          MkFs(Absent, Absent, Present(NoFinalNewlineFile))}

Lookup(fsys, path) == IF path \in DOMAIN fsys THEN fsys[path] ELSE Absent

\* access(path, F_OK) != -1
Access(fsys, path) == Lookup(fsys, path).exists

\* fopen(path, "r") != NULL
CanOpen(fsys, path) == Lookup(fsys, path).exists /\ Lookup(fsys, path).readable

RECURSIVE FileSize(_)
FileSize(content) ==
  IF Len(content) = 0 THEN 0
  ELSE content[1].n + (IF content[1].nl THEN 1 ELSE 0) + FileSize(Tail(content))

(* ------------------------ BuildResponse: resolution -------------------- *)
\* the strcmp chain on file_extension
ExtensionType(file_extension) ==
  IF file_extension = S_html THEN HTML_FILE
  ELSE IF file_extension = S_gif THEN GIF_FILE
  ELSE IF file_extension = S_jpeg THEN JPEG_FILE
  ELSE IF file_extension = S_mp3 THEN MP3_FILE
  ELSE IF file_extension = S_pdf THEN PDF_FILE
  ELSE UNKNOWN_FILE

\* the split of the location into file_name and file_extension:
\* strtok_r(location, ".", &file_extension)
SplitLocation(mem, location) == StrtokR(mem, location, NULL, {"."})

\* filesrc and filetype from the location; mem is the request buffer after
\* the split wrote into it
ClassifyLocation(mem, location) ==
  LET src == CStr(mem, location + 1)
  IN  IF CStr(mem, location) = S_Root
      THEN [filesrc |-> src, filetype |-> NO_FILE, mem |-> mem]
      ELSE IF ~HasChar(src, ".") \/ src[Len(src)] = "." \/ src[1] = "."
      THEN [filesrc |-> src, filetype |-> UNKNOWN_FILE, mem |-> mem]
      ELSE LET t == SplitLocation(mem, location)
           IN  [filesrc |-> src, filetype |-> ExtensionType(CStr(t.mem, t.save)),
                mem |-> t.mem]

\* ResolveGet without the branch for "/": every location is looked up
ResolveGet_NoRootCase(fsys, src, ftype) ==
  IF Access(fsys, src)
  THEN [code |-> 200, filesrc |-> src, filetype |-> ftype, checked |-> <<src>>]
  ELSE [code |-> 404, filesrc |-> NotFoundDoc, filetype |-> HTML_FILE,
        checked |-> <<src>>]

\* ResolveGet whose 404 branch keeps the requested file's type
ResolveGet_KeepType(fsys, src, ftype) ==
  IF ftype = NO_FILE
  THEN [code |-> 200, filesrc |-> IndexDoc, filetype |-> HTML_FILE, checked |-> <<>>]
  ELSE IF Access(fsys, src)
  THEN [code |-> 200, filesrc |-> src, filetype |-> ftype, checked |-> <<src>>]
  ELSE [code |-> 404, filesrc |-> NotFoundDoc, filetype |-> ftype,
        checked |-> <<src>>]

\* the GET branch: status code, file to send and its type; checked lists the
\* paths handed to access()
ResolveGet(fsys, src, ftype) ==
  IF ftype = NO_FILE
  THEN [code |-> 200, filesrc |-> IndexDoc, filetype |-> HTML_FILE, checked |-> <<>>]
  ELSE IF Access(fsys, src)
  THEN [code |-> 200, filesrc |-> src, filetype |-> ftype, checked |-> <<src>>]
  ELSE [code |-> 404, filesrc |-> NotFoundDoc, filetype |-> HTML_FILE,
        checked |-> <<src>>]

(* ----------------------------- ResponseHeader -------------------------- *)
\* Content_Types[filetype]
Content_Types ==
  <<<<>>, S_TextHtml, S_ImageGif, S_ImageJpeg, S_AudioMpeg, S_ApplicationPdf>>

ContentTypeOf(ftype) == Content_Types[ftype + 1]

\* an indeterminate char* (status is assigned for 200, 301, 400 and 404 only)
Indeterminate == <<"?">>

StatusText(c) ==
  IF c = 200 THEN S_OK
  ELSE IF c = 301 THEN S_Moved
  ELSE IF c = 400 THEN S_BadRequest
  ELSE IF c = 404 THEN S_NotFound
  ELSE Indeterminate

DigitChars == <<"0", "1", "2", "3", "4", "5", "6", "7", "8", "9">>

RECURSIVE FormatInt(_)
\* "%d" of a non-negative int
FormatInt(k) ==
  IF k < 10 THEN <<DigitChars[k + 1]>>
  ELSE FormatInt(k \div 10) \o <<DigitChars[(k % 10) + 1]>>

\* HeaderMessages adding Content-Disposition for every known type
HeaderMessages_AlwaysDisposition(ftype, src) ==
  IF 0 < ftype /\ ftype < 6
  THEN <<[field |-> S_ContentType, data |-> ContentTypeOf(ftype)],
         [field |-> S_AcceptRanges, data |-> S_bytes],
         [field |-> S_ContentDisposition,
          data |-> S_InlineFilename \o src \o <<"\"">>]>>
  ELSE <<>>

\* the messages array filled for a file type
HeaderMessages(ftype, src) ==
  IF 0 < ftype /\ ftype < 6
  THEN <<[field |-> S_ContentType, data |-> ContentTypeOf(ftype)],
         [field |-> S_AcceptRanges, data |-> S_bytes]>>
       \o (IF ftype = PDF_FILE \/ ftype = MP3_FILE
           THEN <<[field |-> S_ContentDisposition,
                   data |-> S_InlineFilename \o src \o <<"\"">>]>>
           ELSE <<>>)
  ELSE <<>>

\* sprintf(response_header, "%s %d %s\n", http_version, code, status)
StatusLine(version, c) ==
  version \o <<SP>> \o FormatInt(c) \o <<SP>> \o StatusText(c) \o <<LF>>

\* sprintf(response_header, "%s: %s\n", field, data)
HeaderLine(m) == m.field \o <<":", SP>> \o m.data \o <<LF>>

(* ------------------------------ SendResponse --------------------------- *)
RECURSIVE LineAt(_, _, _, _)
\* the end offset and newline flag of the line holding byte offset pos
LineAt(content, k, start, pos) ==
  LET end == start + content[k].n + (IF content[k].nl THEN 1 ELSE 0)
  IN  IF pos < end \/ k = Len(content)
      THEN [end |-> end, nl |-> content[k].nl]
      ELSE LineAt(content, k + 1, end, pos)

\* fgets(buffer, BUFFER_SIZE - 2, f) at offset pos: bytes stored (0 when it
\* returns NULL and leaves the buffer alone) and whether the end-of-file
\* indicator is set by the call
Fgets(content, pos) ==
  IF pos >= FileSize(content)
  THEN [n |-> 0, eof |-> TRUE]
  ELSE LET l == LineAt(content, 1, 0, pos)
           avail == l.end - pos
           lim == BUFFER_SIZE - 3
       IN  IF avail > lim THEN [n |-> lim, eof |-> FALSE]
           ELSE IF l.nl THEN [n |-> avail, eof |-> FALSE]
           ELSE [n |-> avail, eof |-> avail < lim]

\* fread(buffer, 1, BUFFER_SIZE, f) at offset pos
Fread(content, pos) ==
  IF FileSize(content) - pos < BUFFER_SIZE
  THEN FileSize(content) - pos ELSE BUFFER_SIZE

\* AddWritten counting the bytes handed to write instead of its result
AddWritten_Asked(sum, data_bytes, len) == sum + len

\* byte_sum after a write that returned data_bytes >= 0 of len bytes asked
AddWritten(sum, data_bytes, len) == sum + data_bytes

\* is_text chosen by ResponseBody; "none" is its routing error
RouteBody(ftype) ==
  IF ftype = HTML_FILE \/ ftype = UNKNOWN_FILE THEN "text"
  ELSE IF GIF_FILE <= ftype /\ ftype <= PDF_FILE THEN "binary"
  ELSE "none"

(* ------------------------------- write() ------------------------------- *)
\* what write(fd, buf, len) can return: len, or (while the connection's fault
\* budget lasts) -1 or a short count
WriteResults(len, f) ==
  {len} \cup (IF f < MaxFaults
              THEN {-1} \cup (IF len > 0 THEN {len \div 2} ELSE {})
              ELSE {})

FaultsAfter(f, len, w) == IF w = len THEN f ELSE f + 1

\* how a read of the open file (fgets, fread) can end: it delivers what the
\* file holds at the offset, or (while the fault budget lasts) it fails,
\* delivers nothing and sets the stream's error indicator
ReadOutcomes(f) == {"ok"} \cup (IF f < MaxFaults THEN {"error"} ELSE {})

ReadFaultsAfter(f, r) == IF r = "ok" THEN f ELSE f + 1

\* one write() call as it is seen on the connection
WriteEntry(part, line, off, len, w) ==
  [part |-> part, line |-> line, off |-> off, len |-> len, ret |-> w]

(* -------------------------------- state -------------------------------- *)
VARIABLES
  pc,                 \* position of main: accept, read, parse, parse_loop, build,
                      \* hdr_status, hdr_field, body, send_text, send_bin,
                      \* send_close, close;
                      \* exited after exit(1), crashed after a fatal signal
  nconn,              \* connections accepted so far
  client_socket,      \* descriptor returned by the last accept
  openSockets,        \* client descriptors not yet closed
  fs,                 \* the filesystem
  faults,             \* failed or short writes on this connection
  sent,               \* the request the client sent on this connection
  input_buffer,       \* main's input_buffer, NUL-terminated
  req_header_line,    \* action, location, http_version: pointers into input_buffer
  request_body,       \* field/data pointer pairs stored by ParseHTTPRequest
  request_body_line,  \* ParseHTTPRequest's loop counter, then the value it
                      \* returned to main
  token, rest_buffer, \* ParseHTTPRequest's locals
  strtok_save,        \* strtok's static save pointer
  filesrc, filetype, code,   \* BuildResponse's locals
  accessLog,          \* paths handed to access() on this connection
  messages, i,        \* ResponseHeader's locals
  out,                \* the write() calls made on this connection, in order
  target_file,        \* SendResponse's FILE*: open flag, path, content, offset,
                      \* end-of-file and error indicators
  is_text, buffer, byte_sum, sended_size, file_size,   \* SendResponse's locals
  request_body_bytes  \* value returned by SendResponse

mainVars == <<nconn, client_socket, openSockets>>
parseVars == <<sent, input_buffer, req_header_line, request_body, request_body_line,
               token, rest_buffer, strtok_save>>
buildVars == <<filesrc, filetype, code, accessLog>>
headerVars == <<messages, i>>
sendVars == <<target_file, is_text, buffer, byte_sum, sended_size, file_size,
              request_body_bytes>>
vars == <<pc, nconn, client_socket, openSockets, fs, faults, sent, input_buffer,
          req_header_line, request_body, request_body_line, token, rest_buffer,
          strtok_save, filesrc, filetype,
          code, accessLog, messages, i, out, target_file, is_text, buffer,
          byte_sum, sended_size, file_size, request_body_bytes>>

NoFile == [open |-> FALSE, path |-> <<>>, content |-> EmptyFile, pos |-> 0,
           eof |-> FALSE, err |-> FALSE]
NoLine == [action |-> NULL, location |-> NULL, http_version |-> NULL]
EmptyBuffer == [off |-> 0, len |-> 0]

\* the per-connection state at the top of the while loop: the buffers are
\* cleared by memset, everything else is assigned before it is next read
FreshConnection ==
  /\ faults' = 0
  /\ sent' = NoRequest
  /\ input_buffer' = <<NUL>>
  /\ req_header_line' = NoLine
  /\ request_body' = <<>>
  /\ request_body_line' = 0
  /\ token' = NULL
  /\ rest_buffer' = NULL
  /\ strtok_save' = NULL
  /\ filesrc' = <<>>
  /\ filetype' = NO_FILE
  /\ code' = 0
  /\ accessLog' = <<>>
  /\ messages' = <<>>
  /\ i' = 0
  /\ out' = <<>>
  /\ target_file' = NoFile
  /\ is_text' = TRUE
  /\ buffer' = EmptyBuffer
  /\ byte_sum' = 0
  /\ sended_size' = 0
  /\ file_size' = 0
  /\ request_body_bytes' = 0

Init ==
  /\ pc = "accept"
  /\ nconn = 0
  /\ client_socket = 0
  /\ openSockets = {}
  /\ fs \in FsConfigs
  /\ faults = 0
  /\ sent = NoRequest
  /\ input_buffer = <<NUL>>
  /\ req_header_line = NoLine
  /\ request_body = <<>>
  /\ request_body_line = 0
  /\ token = NULL
  /\ rest_buffer = NULL
  /\ strtok_save = NULL
  /\ filesrc = <<>>
  /\ filetype = NO_FILE
  /\ code = 0
  /\ accessLog = <<>>
  /\ messages = <<>>
  /\ i = 0
  /\ out = <<>>
  /\ target_file = NoFile
  /\ is_text = TRUE
  /\ buffer = EmptyBuffer
  /\ byte_sum = 0
  /\ sended_size = 0
  /\ file_size = 0
  /\ request_body_bytes = 0

(* ------------------------------- main loop ----------------------------- *)
\* accept() returns a new descriptor
Accept ==
  /\ pc = "accept"
  /\ nconn < MaxConn
  /\ nconn' = nconn + 1
  /\ client_socket' = nconn + 1
  /\ openSockets' = openSockets \cup {nconn + 1}
  /\ FreshConnection
  /\ pc' = "read"
  /\ UNCHANGED fs

\* accept() fails: error() exits the process
AcceptFail ==
  /\ pc = "accept"
  /\ nconn < MaxConn
  /\ pc' = "exited"
  /\ UNCHANGED <<mainVars, fs, faults, parseVars, buildVars, headerVars, out, sendVars>>

\* where main goes after ListenRequest returned request_bytes
AfterRead(request_bytes) == IF request_bytes = 0 THEN "accept" ELSE "parse"

\* ListenRequest and main's test of its result
ListenRequest ==
  /\ pc = "read"
  /\ \/ /\ pc' = "exited"                      \* read() < 0: error()
        /\ UNCHANGED <<sent, input_buffer>>
     \/ /\ pc' = AfterRead(0)                  \* read() = 0: continue
        /\ UNCHANGED <<sent, input_buffer>>
     \/ \E r \in Requests :
          /\ Len(Render(r)) <= BUFFER_SIZE - 1
          /\ sent' = r
          /\ input_buffer' = Render(r) \o <<NUL>>
          /\ pc' = AfterRead(Len(Render(r)))
  /\ UNCHANGED <<mainVars, fs, faults, req_header_line, request_body,
                 request_body_line, token, rest_buffer, strtok_save, buildVars,
                 headerVars, out, sendVars>>

\* where main goes after ParseHTTPRequest returned ret
AfterParse(ret) == IF ret < 0 THEN "exited" ELSE "build"

\* ParseHTTPRequest up to its for loop
Parse ==
  /\ pc = "parse"
  /\ LET p == ParseRequestLine(input_buffer)
     IN  IF p.crash
         THEN /\ pc' = "crashed"
              /\ UNCHANGED <<input_buffer, req_header_line, request_body_line,
                             token, rest_buffer, strtok_save>>
         ELSE /\ input_buffer' = p.mem
              /\ req_header_line' = p.line
              /\ token' = p.token
              /\ rest_buffer' = p.rest_buffer
              /\ strtok_save' = p.olds
              /\ request_body_line' = 0
              /\ pc' = "parse_loop"
  /\ UNCHANGED <<mainVars, fs, faults, sent, request_body, buildVars, headerVars,
                 out, sendVars>>

\* the array request_body[MAX_LINE] has no entry at this index
HeaderIndexOverflow(index) == index >= MAX_LINE

\* the test of ParseHTTPRequest's for loop, then one pass of it or its return
\* and main's test of the result.  A store past the end of request_body is
\* undefined: the process dies, or runs on with the entry written beyond the
\* array.
ParseLoop ==
  /\ pc = "parse_loop"
  /\ IF token # NULL
     THEN LET p == ParseHeaderLine(input_buffer, rest_buffer, strtok_save)
          IN  /\ input_buffer' = p.mem
              /\ token' = p.token
              /\ rest_buffer' = p.rest_buffer
              /\ strtok_save' = p.olds
              /\ request_body' = Append(request_body, p.entry)
              /\ request_body_line' = request_body_line + 1
              /\ \/ pc' = "parse_loop"
                 \/ /\ HeaderIndexOverflow(request_body_line)
                    /\ pc' = "crashed"
     ELSE /\ request_body_line' = ParseReturnValue(request_body_line)
          /\ pc' = AfterParse(ParseReturnValue(request_body_line))
          /\ UNCHANGED <<input_buffer, token, rest_buffer, strtok_save,
                         request_body>>
  /\ UNCHANGED <<mainVars, fs, faults, sent, req_header_line, buildVars,
                 headerVars, out, sendVars>>

\* MethodBranch sending a GET to ResponseBody without ResponseHeader
MethodBranch_SkipHeader(method) ==
  IF method = S_GET THEN "body"
  ELSE IF method = S_POST THEN "close"
  ELSE "exited"

\* the if / else if / else on the request's action
MethodBranch(method) ==
  IF method = S_GET THEN "hdr_status"
  ELSE IF method = S_POST THEN "close"
  ELSE "exited"

\* BuildResponse up to the call of ResponseHeader.  crash: strcpy from
\* location + 1 when location is NULL.
BuildResponse ==
  /\ pc = "build"
  /\ IF req_header_line.location = NULL
     THEN /\ pc' = "crashed"
          /\ UNCHANGED <<input_buffer, buildVars>>
     ELSE LET c == ClassifyLocation(input_buffer, req_header_line.location)
              method == CStr(c.mem, req_header_line.action)
              r == ResolveGet(fs, c.filesrc, c.filetype)
          IN  /\ input_buffer' = c.mem
              /\ pc' = MethodBranch(method)
              /\ IF method = S_GET
                 THEN /\ code' = r.code
                      /\ filesrc' = r.filesrc
                      /\ filetype' = r.filetype
                      /\ accessLog' = r.checked
                 ELSE /\ filesrc' = c.filesrc
                      /\ filetype' = c.filetype
                      /\ UNCHANGED <<code, accessLog>>
  /\ UNCHANGED <<mainVars, fs, faults, sent, req_header_line, request_body,
                 request_body_line, token, rest_buffer, strtok_save, headerVars,
                 out, sendVars>>

\* ResponseHeader: the messages array and the status line.  A NULL
\* http_version handed to "%s" is undefined: the process dies or the C
\* library prints "(null)".
HeaderStatus ==
  /\ pc = "hdr_status"
  /\ messages' = HeaderMessages(filetype, filesrc)
  /\ i' = 0
  /\ \/ /\ req_header_line.http_version = NULL
        /\ pc' = "crashed"
        /\ UNCHANGED <<out, faults>>
     \/ LET version == IF req_header_line.http_version = NULL THEN S_PrintfNull
                       ELSE CStr(input_buffer, req_header_line.http_version)
            line == StatusLine(version, code)
        IN  \E w \in WriteResults(Len(line), faults) :
              /\ out' = Append(out, WriteEntry("status", line, 0, Len(line), w))
              /\ faults' = FaultsAfter(faults, Len(line), w)
              /\ pc' = IF w < 0 THEN "exited" ELSE "hdr_field"
  /\ UNCHANGED <<mainVars, fs, parseVars, buildVars, sendVars>>

\* ResponseHeader: one pass of the loop over messages
HeaderField ==
  /\ pc = "hdr_field"
  /\ i < Len(messages)
  /\ LET line == HeaderLine(messages[i + 1])
     IN  \E w \in WriteResults(Len(line), faults) :
           /\ out' = Append(out, WriteEntry("header", line, 0, Len(line), w))
           /\ faults' = FaultsAfter(faults, Len(line), w)
           /\ pc' = IF w < 0 THEN "exited" ELSE "hdr_field"
  /\ i' = i + 1
  /\ UNCHANGED <<mainVars, fs, parseVars, buildVars, messages, sendVars>>

\* ResponseHeader: the empty line; the result of this write is not tested
HeaderEnd ==
  /\ pc = "hdr_field"
  /\ i >= Len(messages)
  /\ \E w \in WriteResults(1, faults) :
       /\ out' = Append(out, WriteEntry("blank", <<LF>>, 0, 1, w))
       /\ faults' = FaultsAfter(faults, 1, w)
  /\ pc' = "body"
  /\ UNCHANGED <<mainVars, fs, parseVars, buildVars, headerVars, sendVars>>

\* ResponseBody's routing and the head of SendResponse: memset, fopen and,
\* in binary mode, the size by fseek/ftell.  crash: feof or fseek on the NULL
\* FILE* of a failed fopen.
BodyOpen ==
  /\ pc = "body"
  /\ IF RouteBody(filetype) = "none"
     THEN /\ pc' = "exited"
          /\ UNCHANGED sendVars
     ELSE IF ~CanOpen(fs, filesrc)
     THEN /\ pc' = "crashed"
          /\ UNCHANGED sendVars
     ELSE /\ target_file' = [open |-> TRUE, path |-> filesrc,
                             content |-> Lookup(fs, filesrc).content,
                             pos |-> 0, eof |-> FALSE, err |-> FALSE]
          /\ is_text' = (RouteBody(filetype) = "text")
          /\ buffer' = EmptyBuffer
          /\ byte_sum' = 0
          /\ sended_size' = 0
          /\ file_size' = IF RouteBody(filetype) = "text" THEN 0
                          ELSE FileSize(Lookup(fs, filesrc).content)
          /\ pc' = IF RouteBody(filetype) = "text" THEN "send_text" ELSE "send_bin"
          /\ UNCHANGED request_body_bytes
  /\ UNCHANGED <<mainVars, fs, faults, parseVars, buildVars, headerVars, out>>

\* another process removes the file to send between BuildResponse's check
\* and SendResponse's fopen
FsRemove ==
  /\ pc = "body"
  /\ filesrc \in DOMAIN fs
  /\ fs[filesrc].exists
  /\ fs' = [fs EXCEPT ![filesrc] = Absent]
  /\ UNCHANGED <<pc, mainVars, faults, parseVars, buildVars, headerVars, out, sendVars>>

\* SendResponse, text mode: the test of feof and one pass of the loop
SendText ==
  /\ pc = "send_text"
  /\ IF target_file.eof
     THEN /\ pc' = "send_close"
          /\ UNCHANGED <<target_file, buffer, byte_sum, out, faults>>
     ELSE \E r \in ReadOutcomes(faults) :
           LET g == IF r = "ok" THEN Fgets(target_file.content, target_file.pos)
                    ELSE [n |-> 0, eof |-> FALSE]
               b == IF g.n > 0 THEN [off |-> target_file.pos, len |-> g.n] ELSE buffer
               f == ReadFaultsAfter(faults, r)
           IN  /\ target_file' = [target_file EXCEPT !.pos = @ + g.n, !.eof = g.eof,
                                                     !.err = @ \/ r = "error"]
               /\ buffer' = b
               /\ \E w \in WriteResults(b.len, f) :
                    /\ out' = Append(out, WriteEntry("body", <<>>, b.off, b.len, w))
                    /\ faults' = FaultsAfter(f, b.len, w)
                    /\ IF w < 0
                       THEN pc' = "exited" /\ UNCHANGED byte_sum
                       ELSE pc' = "send_text"
                            /\ byte_sum' = AddWritten(byte_sum, w, b.len)
  /\ UNCHANGED <<mainVars, fs, parseVars, buildVars, headerVars, is_text,
                 sended_size, file_size, request_body_bytes>>

\* SendResponse, binary mode: the loop test and one pass of the loop
SendBinary ==
  /\ pc = "send_bin"
  /\ IF sended_size = file_size
     THEN /\ pc' = "send_close"
          /\ UNCHANGED <<target_file, buffer, byte_sum, sended_size, out, faults>>
     ELSE \E r \in ReadOutcomes(faults) :
           LET read_size == IF r = "ok"
                            THEN Fread(target_file.content, target_file.pos) ELSE 0
               f == ReadFaultsAfter(faults, r)
           IN  /\ target_file' = [target_file EXCEPT !.pos = @ + read_size,
                                                     !.err = @ \/ r = "error"]
               /\ buffer' = [off |-> target_file.pos, len |-> read_size]
               /\ sended_size' = sended_size + read_size
               /\ \E w \in WriteResults(read_size, f) :
                    /\ out' = Append(out, WriteEntry("body", <<>>, target_file.pos,
                                                     read_size, w))
                    /\ faults' = FaultsAfter(f, read_size, w)
                    /\ IF w < 0
                       THEN pc' = "exited" /\ UNCHANGED byte_sum
                       ELSE pc' = "send_bin"
                            /\ byte_sum' = AddWritten(byte_sum, w, read_size)
  /\ UNCHANGED <<mainVars, fs, parseVars, buildVars, headerVars, is_text,
                 file_size, request_body_bytes>>

\* SendResponse's fclose and return, ResponseBody's return
SendClose ==
  /\ pc = "send_close"
  /\ target_file' = [target_file EXCEPT !.open = FALSE]
  /\ request_body_bytes' = byte_sum
  /\ pc' = "close"
  /\ UNCHANGED <<mainVars, fs, faults, parseVars, buildVars, headerVars, out,
                 is_text, buffer, byte_sum, sended_size, file_size>>

\* main's close(client_socket)
Close ==
  /\ pc = "close"
  /\ openSockets' = openSockets \ {client_socket}
  /\ pc' = "accept"
  /\ UNCHANGED <<nconn, client_socket, fs, faults, parseVars, buildVars,
                 headerVars, out, sendVars>>

Next ==
  \/ Accept
  \/ AcceptFail
  \/ ListenRequest
  \/ Parse
  \/ ParseLoop
  \/ BuildResponse
  \/ HeaderStatus
  \/ HeaderField
  \/ HeaderEnd
  \/ BodyOpen
  \/ FsRemove
  \/ SendText
  \/ SendBinary
  \/ SendClose
  \/ Close

Spec == Init /\ [][Next]_vars

(* ======================= properties of the server ====================== *)
\* the request on this connection, as the client sent it
RequestReceived == sent # NoRequest
SentMethod == sent.tokens[1]
SentPath == sent.tokens[2]
WellFormed == RequestReceived /\ Len(sent.tokens) = 3
IsGetOf(path) ==
  RequestReceived /\ Len(sent.tokens) >= 2 /\ SentMethod = S_GET /\ SentPath = path
IsGetNotRoot ==
  RequestReceived /\ Len(sent.tokens) >= 2 /\ SentMethod = S_GET /\ SentPath # S_Root
ProcessEnded == pc \in {"exited", "crashed"}
\* BuildResponse's GET branch has chosen code, filesrc and filetype
Resolved == code # 0
\* a status line carrying code c was written in full on this connection
StatusWritten(c) ==
  \E k \in 1..Len(out), v \in {S_Version, S_PrintfNull} :
     /\ out[k].part = "status"
     /\ out[k].line = StatusLine(v, c)
     /\ out[k].ret = out[k].len

\* C1: a request whose method is not GET is answered with a 400 status line
\* before its connection is closed; the connection never ends without a
\* response.
C1_NonGetAnswered400 ==
  (WellFormed /\ SentMethod # S_GET /\ (pc = "close" \/ ProcessEnded))
    => StatusWritten(400)

\* C2: the content of a request never ends the server process: once a
\* request was read, the process ends only on an I/O failure during the
\* response.
C2_RequestNeverEndsProcess ==
  (RequestReceived /\ ProcessEnded) => out # <<>>

\* C3: a request line with fewer than three tokens makes ParseHTTPRequest
\* report an error, and the request never reaches BuildResponse.
FewerThanThreeTokens == RequestReceived /\ Len(sent.tokens) < 3
C3_ShortRequestLineRejected ==
  (FewerThanThreeTokens /\ pc \notin {"parse", "parse_loop"})
    => (request_body_line < 0 /\ pc = "exited")

RECURSIVE LastDot(_, _)
\* position of the last '.' of s at or before k (0 when there is none)
LastDot(s, k) == IF k = 0 THEN 0 ELSE IF s[k] = "." THEN k ELSE LastDot(s, k - 1)
\* the text after the last '.' of a name
LastExtension(name) == SubSeq(name, LastDot(name, Len(name)) + 1, Len(name))
KnownExtensions == {S_html, S_gif, S_jpeg, S_mp3, S_pdf}
\* /name.ext with a non-empty name and one of the five extensions
IsNameDotExt(path) ==
  /\ Len(path) >= 1 /\ path[1] = "/"
  /\ LastDot(Tail(path), Len(path) - 1) > 1
  /\ LastExtension(Tail(path)) \in KnownExtensions

\* C5: a GET of /name.ext with one of the five extensions whose file
\* exists resolves to 200, the candidate name and the kind of the extension.
C5_ExistingFileKind ==
  (Resolved /\ IsGetNotRoot /\ IsNameDotExt(SentPath) /\ Access(fs, Tail(SentPath)))
    => /\ code = 200
       /\ filesrc = Tail(SentPath)
       /\ filetype = ExtensionType(LastExtension(Tail(SentPath)))

\* C6: a GET of a path other than "/" whose candidate file is absent
\* resolves to 404, the not-found document and kind Html; and in every
\* state a 404 resource is the not-found document with kind Html.
C6_AbsentFileIs404 ==
  /\ (pc = "hdr_status" /\ IsGetNotRoot /\ ~Access(fs, Tail(SentPath)))
       => (code = 404 /\ filesrc = NotFoundDoc /\ filetype = HTML_FILE)
  /\ code = 404 => (filesrc = NotFoundDoc /\ filetype = HTML_FILE)

\* C6 witness: an absent image was requested and resolved to the not-found
\* document
C6_Witness ==
  /\ IsGetOf(P_gif)
  /\ pc = "hdr_status"
  /\ ~Access(fs, Tail(P_gif))
  /\ code = 404
  /\ filesrc = NotFoundDoc

\* C7: a GET of /name.xyz whose file is present is answered with 200, kind
\* Unknown and a Content-Type: text/plain header line.
C7_UnknownServedTextPlain ==
  (IsGetOf(P_xyz) /\ WellFormed /\ pc = "close" /\ faults = 0)
    => /\ code = 200
       /\ filetype = UNKNOWN_FILE
       /\ \E k \in 1..Len(out) :
            /\ out[k].part = "header"
            /\ out[k].line = HeaderLine([field |-> S_ContentType, data |-> S_TextPlain])

\* the string a pointer of the parsed request denotes
StrOrNull(p) == IF p = NULL THEN <<"NULL">> ELSE CStr(input_buffer, p)
\* the header list ParseHTTPRequest reports: its first request_body_line
\* entries
ParsedHeaders ==
  [k \in 1..request_body_line |->
     [field |-> StrOrNull(request_body[k].field),
      value |-> StrOrNull(request_body[k].data)]]

\* C8: for a well-formed request ParseHTTPRequest yields the three tokens
\* of the request line and exactly the header lines before the blank line,
\* each as (field, value) without line-ending characters.
C8_ParseYieldsRequest ==
  (WellFormed /\ pc = "build")
    => /\ StrOrNull(req_header_line.action) = sent.tokens[1]
       /\ StrOrNull(req_header_line.location) = sent.tokens[2]
       /\ StrOrNull(req_header_line.http_version) = sent.tokens[3]
       /\ ParsedHeaders = sent.headers

\* C9: whenever the server is at accept, every client socket accepted
\* before has been closed.
C9_ClosedBeforeNextAccept == pc = "accept" => openSockets = {}

RECURSIVE BodyBytesWritten(_)
\* sum of the counts returned by the successful body writes in a log
BodyBytesWritten(log) ==
  IF Len(log) = 0 THEN 0
  ELSE (IF log[1].part = "body" /\ log[1].ret >= 0 THEN log[1].ret ELSE 0)
       + BodyBytesWritten(Tail(log))

\* C10: the value SendResponse returns is the sum of the counts returned by
\* its writes to the connection, in text and in binary mode.
C10_ReturnIsBytesWritten ==
  (pc = "close" /\ Resolved) => request_body_bytes = BodyBytesWritten(out)

\* C10 witness: a two-chunk file was sent in binary mode, one write was
\* short, and SendResponse has returned
C10_Witness ==
  /\ pc = "close"
  /\ Resolved
  /\ ~is_text
  /\ file_size = 2 * BUFFER_SIZE
  /\ sended_size = file_size
  /\ request_body_bytes > 0
  /\ request_body_bytes < file_size

RECURSIVE BodyEnd(_, _)
\* the file offset reached when the body writes of a log, taken in order,
\* each continue where the one before ended; -1 when one of them does not
BodyEnd(log, next) ==
  IF Len(log) = 0 THEN next
  ELSE IF log[1].part # "body" THEN BodyEnd(Tail(log), next)
  ELSE IF log[1].off # next /\ log[1].ret > 0 THEN -1
  ELSE BodyEnd(Tail(log), next + log[1].ret)

\* C11: in text mode, when every read and write succeeds in full, the bytes
\* written to the connection are the file's bytes, each line once and in
\* file order.
C11_TextBodyIsFile ==
  (pc = "close" /\ Resolved /\ is_text /\ faults = 0)
    => BodyEnd(out, 0) = FileSize(target_file.content)

\* C12: in binary mode the transmit loop ends with the file's size in bytes
\* written to the connection, every chunk written in full, also when a write
\* is short or a read delivers less than remains.
C12_BinaryWritesWholeFile ==
  (pc = "close" /\ Resolved /\ ~is_text)
    => /\ BodyBytesWritten(out) = file_size
       /\ \A k \in 1..Len(out) : out[k].part = "body" => out[k].ret = out[k].len

\* the kind a file name has by the text after its last '.': Unknown for a
\* name without '.', ending with '.' or starting with '.'
KindByLastDot(name) ==
  IF ~HasChar(name, ".") \/ name[Len(name)] = "." \/ name[1] = "."
  THEN UNKNOWN_FILE
  ELSE ExtensionType(LastExtension(name))

\* C13: the kind of an existing requested file is looked up by the text
\* after the LAST '.' of its name (/a.b.html is Html, /a.html.xyz Unknown);
\* names without '.', ending with '.' or starting with '.' are Unknown.
C13_KindByLastDot ==
  (Resolved /\ WellFormed /\ IsGetNotRoot /\ code = 200)
    => filetype = KindByLastDot(Tail(SentPath))

\* the header lines of the response format, as they appear on the wire
L_TypeHtml == <<"C", "o", "n", "t", "e", "n", "t", "-", "T", "y", "p", "e", ":", " ", "t", "e", "x", "t", "/", "h", "t", "m", "l", LF>>
L_TypeGif == <<"C", "o", "n", "t", "e", "n", "t", "-", "T", "y", "p", "e", ":", " ", "i", "m", "a", "g", "e", "/", "g", "i", "f", LF>>
L_TypeJpeg == <<"C", "o", "n", "t", "e", "n", "t", "-", "T", "y", "p", "e", ":", " ", "i", "m", "a", "g", "e", "/", "j", "p", "e", "g", LF>>
L_TypeMp3 == <<"C", "o", "n", "t", "e", "n", "t", "-", "T", "y", "p", "e", ":", " ", "a", "u", "d", "i", "o", "/", "m", "p", "e", "g", LF>>
L_TypePdf == <<"C", "o", "n", "t", "e", "n", "t", "-", "T", "y", "p", "e", ":", " ", "a", "p", "p", "l", "i", "c", "a", "t", "i", "o", "n", "/", "p", "d", "f", LF>>
L_AcceptRanges == <<"A", "c", "c", "e", "p", "t", "-", "R", "a", "n", "g", "e", "s", ":", " ", "b", "y", "t", "e", "s", LF>>
L_DispositionHead == <<"C", "o", "n", "t", "e", "n", "t", "-", "D", "i", "s", "p", "o", "s", "i", "t", "i", "o", "n", ":", " ", "i", "n", "l", "i", "n", "e", ";", " ", "f", "i", "l", "e", "n", "a", "m", "e", "=", "\"">>
L_DispositionTail == <<"\"", LF>>

\* the header lines a resource of a kind and file path is to be sent with
ExpectedHeaderLines(kind, path) ==
  IF kind = HTML_FILE THEN <<L_TypeHtml, L_AcceptRanges>>
  ELSE IF kind = GIF_FILE THEN <<L_TypeGif, L_AcceptRanges>>
  ELSE IF kind = JPEG_FILE THEN <<L_TypeJpeg, L_AcceptRanges>>
  ELSE IF kind = MP3_FILE
  THEN <<L_TypeMp3, L_AcceptRanges, L_DispositionHead \o path \o L_DispositionTail>>
  ELSE IF kind = PDF_FILE
  THEN <<L_TypePdf, L_AcceptRanges, L_DispositionHead \o path \o L_DispositionTail>>
  ELSE <<>>

IsHeaderWrite(e) == e.part = "header"
\* the header lines handed to write() on this connection, in order
HeaderLinesWritten ==
  LET hs == SelectSeq(out, IsHeaderWrite)
  IN  [k \in 1..Len(hs) |-> hs[k].line]
\* the empty line that ends the header block has been written
HeaderBlockEnded == \E k \in 1..Len(out) : out[k].part = "blank"

\* C14: the header lines written for a resolved resource are those of its
\* kind: Content-Type with the kind's string, then Accept-Ranges: bytes,
\* then Content-Disposition for Pdf and Mp3 only; none of them for Unknown.
C14_HeaderLinesByKind ==
  HeaderBlockEnded => HeaderLinesWritten = ExpectedHeaderLines(filetype, filesrc)

\* C14 witness: the header block of an existing mp3 file was written with
\* its three lines
C14_Witness ==
  /\ pc = "body"
  /\ HeaderBlockEnded
  /\ code = 200
  /\ filetype = MP3_FILE
  /\ Len(HeaderLinesWritten) = 3

\* code and reason phrase of the status lines, as they appear on the wire
L_200 == <<"2", "0", "0", " ", "O", "K", LF>>
L_404 == <<"4", "0", "4", " ", "N", "o", "t", " ", "F", "o", "u", "n", "d", LF>>

\* "<version> <code> <reason>\n" for the codes a GET can resolve to
ExpectedStatusLine(version, c) ==
  version \o <<SP>> \o (IF c = 200 THEN L_200 ELSE L_404)

\* position of a write in the response format
PartRank(part) ==
  IF part = "status" THEN 1
  ELSE IF part = "header" THEN 2
  ELSE IF part = "blank" THEN 3
  ELSE 4

\* C15: the writes on a connection come in the order status line, header
\* lines, one empty line, body; the status line is the first write and the
\* only one of its kind, carries the request's version, the code and its
\* reason, and no body write comes before the empty line nor a header write
\* after it.
C15_WriteOrder ==
  /\ \A j, k \in 1..Len(out) : j < k => PartRank(out[j].part) <= PartRank(out[k].part)
  /\ \A k \in 1..Len(out) : (out[k].part = "status") <=> (k = 1)
  /\ Cardinality({k \in 1..Len(out) : out[k].part = "blank"}) <= 1
  /\ (\E k \in 1..Len(out) : out[k].part = "body") => HeaderBlockEnded
  /\ (WellFormed /\ out # <<>>)
       => out[1].line = ExpectedStatusLine(sent.tokens[3], code)

\* C15 witness: a complete response with header lines and a non-empty body
C15_Witness ==
  /\ pc = "close"
  /\ WellFormed
  /\ faults = 0
  /\ HeaderBlockEnded
  /\ Len(HeaderLinesWritten) >= 2
  /\ \E k \in 1..Len(out) : out[k].part = "body" /\ out[k].ret > 0

\* C16: on the connection of a well-formed request, a write of the status
\* line, of a header line or of the empty line that fails or is short is the
\* last write.
C16_NoWriteAfterFailedHeaderWrite ==
  WellFormed =>
    \A k \in 1..Len(out) :
       (out[k].part \in {"status", "header", "blank"} /\ out[k].ret < out[k].len)
         => k = Len(out)

\* the requested file is in the filesystem but cannot be read
CandidateUnreadable ==
  /\ Lookup(fs, Tail(SentPath)).exists
  /\ ~Lookup(fs, Tail(SentPath)).readable

\* C17: a GET whose candidate file exists but is not readable resolves to
\* 404, the not-found document and kind Html, so the unreadable file is
\* never the file handed to SendResponse.
C17_UnreadableIs404 ==
  (Resolved /\ WellFormed /\ IsGetNotRoot /\ CandidateUnreadable)
    => /\ code = 404
       /\ filesrc = NotFoundDoc
       /\ filetype = HTML_FILE

\* SendResponse has opened a file for this response
FileWasOpened == target_file.path # <<>>
\* SendResponse is between its fopen and its fclose
Transmitting == pc \in {"send_text", "send_bin", "send_close"}

\* C18: the file SendResponse opened has been closed by fclose whenever the
\* transmission is over, and as soon as a read of it has failed.
C18_FileClosedOnEveryExit ==
  (FileWasOpened /\ (~Transmitting \/ target_file.err)) => ~target_file.open

\* C19: BuildResponse leaves the parsed request as ParseHTTPRequest produced
\* it: method, path and version denote the same strings before and after.
C19_RequestUnchangedByBuild ==
  [][(pc = "build" /\ WellFormed) =>
       /\ StrOrNull(req_header_line.action)' = StrOrNull(req_header_line.action)
       /\ StrOrNull(req_header_line.location)' = StrOrNull(req_header_line.location)
       /\ StrOrNull(req_header_line.http_version)'
            = StrOrNull(req_header_line.http_version)]_vars

\* C20: once SendResponse has been entered (the header block is ended and
\* main is past ResponseBody's call), its fopen has delivered a valid
\* handle, whichever of the three files was resolved.
C20_OpenSucceeds ==
  (HeaderBlockEnded /\ pc # "body") => FileWasOpened

\* the indices 0 .. n-1 at which ParseHTTPRequest stored the n entries of
\* request_body
StoredIndices == {k - 1 : k \in 1..Len(request_body)}

\* C21: for every request that fits the read limit of BUFFER_SIZE - 1 bytes,
\* every index at which ParseHTTPRequest stored a header entry is below
\* MAX_LINE, the number of entries of the header array, however many lines
\* the request has.
C21_HeaderIndexBelowCapacity ==
  (RequestReceived /\ Len(Render(sent)) <= BUFFER_SIZE - 1)
    => \A idx \in StoredIndices : idx < MAX_LINE
====
